---- MODULE Spec2Model ----
(***************************************************************************)
(* Model of backend/main.py: the FastAPI pass-through layer in front of    *)
(* the Root insurance API.  One POST request (to /quote, /payment-method   *)
(* or /bind) is followed from its arrival to its response; GET /health can *)
(* be served at any moment.  The provider is the environment.              *)
(*                                                                         *)
(* Python values are tagged records:                                       *)
(*   [t |-> "absent"]            key not in the dict / field not supplied  *)
(*   [t |-> "null"]              None / JSON null                          *)
(*   [t |-> "str", s |-> "..."]  a str                                     *)
(*   [t |-> "digits", d |-> <<..>>]  a str made of decimal digits          *)
(*   [t |-> "isodate", y, m, d]  a str of the form YYYY-MM-DD              *)
(*   [t |-> "isodatetime", y, m, d]  a str holding a date and a time       *)
(*   [t |-> "fstr", parts |-> <<..>>]  a str built by an f-string           *)
(*   [t |-> "num", n |-> i]      a JSON number                             *)
(*   [t |-> "dict"]              a JSON object used as a value             *)
(*   [t |-> "nil"]               no value yet (model bookkeeping)          *)
(* Messages are sequences of text fragments (f-string concatenation).      *)
(***************************************************************************)
EXTENDS Integers, Sequences, FiniteSets, TLC

VARIABLES pc, req, calls, outcome, resp, providerState, healthResp

vars == <<pc, req, calls, outcome, resp, providerState, healthResp>>

(* ------------------------------ bounds --------------------------------- *)
MaxCardLen == 5
MaxPremium == 1
YearSpan == 1

(* ------------------------------ values --------------------------------- *)
Absent == [t |-> "absent"]
Null == [t |-> "null"]
Str(s) == [t |-> "str", s |-> s]
Digits(d) == [t |-> "digits", d |-> d]
Num(n) == [t |-> "num", n |-> n]
IsoDate(y, m, d) == [t |-> "isodate", y |-> y, m |-> m, d |-> d]
Dict == [t |-> "dict"]
Nil == [t |-> "nil"]

IsStr(v) == v.t \in {"str", "fstr", "digits", "isodate", "isodatetime"}

(* Python truthiness of the values that the code tests with `not v`. *)
Truthy(v) ==
    CASE v.t = "absent" -> FALSE
      [] v.t = "null" -> FALSE
      [] v.t = "str" -> v.s # ""
      [] v.t = "digits" -> Len(v.d) > 0
      [] OTHER -> TRUE

(* dict.get(key, default); Absent encodes a key that the dict lacks. *)
Get(obj, key, default) ==
    IF key \in DOMAIN obj /\ obj[key] # Absent THEN obj[key] ELSE default

Ok(v) == [ok |-> TRUE, val |-> v]
Raise(type, text) == [ok |-> FALSE, exc |-> type, text |-> text]

RECURSIVE DigitsValue(_)
DigitsValue(d) ==
    IF Len(d) = 0 THEN 0
    ELSE 10 * DigitsValue(SubSeq(d, 1, Len(d) - 1)) + d[Len(d)]

(* float(x) for the values a JSON body can hold. *)
PyFloat(v) ==
    CASE v.t = "num" -> Ok(v.n)
      [] v.t = "digits" ->
            IF Len(v.d) > 0 THEN Ok(DigitsValue(v.d))
            ELSE Raise("ValueError", "could not convert string to float")
      [] v.t \in {"str", "isodate"} ->
            Raise("ValueError", "could not convert string to float")
      [] OTHER -> Raise("TypeError", "float() argument must be a string or a real number")

(* ------------------------------ dates ---------------------------------- *)
IsLeap(y) == (y % 4 = 0 /\ y % 100 # 0) \/ y % 400 = 0

DaysInMonth(y, m) ==
    IF m = 2 THEN (IF IsLeap(y) THEN 29 ELSE 28)
    ELSE IF m \in {4, 6, 9, 11} THEN 30 ELSE 31

ValidDate(y, m, d) == m \in 1..12 /\ d >= 1 /\ d <= DaysInMonth(y, m)

(* datetime.date(year, month, day) *)
MakeDate(y, m, d) ==
    IF ValidDate(y, m, d) THEN Ok([year |-> y, month |-> m, day |-> d])
    ELSE Raise("ValueError", "day is out of range for month")

(* date.fromisoformat(s) *)
FromIsoFormat(v) ==
    CASE v.t = "isodate" ->
            IF ValidDate(v.y, v.m, v.d) THEN Ok([year |-> v.y, month |-> v.m, day |-> v.d])
            ELSE Raise("ValueError", "day is out of range for month")
      [] v.t \in {"str", "digits"} -> Raise("ValueError", "Invalid isoformat string")
      [] OTHER -> Raise("TypeError", "fromisoformat: argument must be str")

(* date.isoformat() *)
IsoFormat(dt) == IsoDate(dt.year, dt.month, dt.day)

(* datetime.now().isoformat(): the date part of the clock, time elided. *)
NowIsoFormat(today) == [t |-> "isodatetime", y |-> today.year, m |-> today.month, d |-> today.day]

(* --------------------------- schema layer ------------------------------ *)
PaymentTypes == {"card", "bank_account"}

(* PaymentMethodRequest.validate_card_number(cls, v, values) *)
validate_card_number(v, values) ==
    IF Get(values, "type", Null) = Str("card") /\ ~Truthy(v)
    THEN Raise("ValueError", "Card number is required for card payments")
    ELSE Ok(v)

(* Validation of the request body against the endpoint's model; the result *)
(* is the sequence of field errors.  A field validator declared with       *)
(* @validator (no always=True) runs only on a value the caller supplied,   *)
(* and `values` holds the fields that validated before it.                 *)
QuoteRequestErrors(r) ==
    IF r.firstName = Absent THEN << [loc |-> "firstName", msg |-> "Field required"] >> ELSE << >>

PaymentMethodRequestErrors(r) ==
    LET typeOk == r.type.t = "str" /\ r.type.s \in PaymentTypes
        values == IF typeOk THEN [type |-> r.type] ELSE [type |-> Absent]
        typeErr == IF typeOk THEN << >>
                   ELSE << [loc |-> "type", msg |-> "Input should be 'card' or 'bank_account'"] >>
        cardErr == IF r.cardNumber # Absent /\ ~validate_card_number(r.cardNumber, values).ok
                   THEN << [loc |-> "cardNumber", msg |-> validate_card_number(r.cardNumber, values).text] >>
                   ELSE << >>
    IN  typeErr \o cardErr

BindRequestErrors(r) ==
    IF r.paymentMethodId = Absent
    THEN << [loc |-> "paymentMethodId", msg |-> "Field required"] >> ELSE << >>

RequestErrors(r) ==
    CASE r.op = "quote" -> QuoteRequestErrors(r)
      [] r.op = "payment-method" -> PaymentMethodRequestErrors(r)
      [] r.op = "bind" -> BindRequestErrors(r)

(* The framework's answer to a body that fails validation: the route       *)
(* function is not entered.                                                *)
RequestValidationResponse(errors) ==
    [status |-> 422, body |-> [detail |-> errors]]

(* --------------------------- provider client --------------------------- *)
HTTPException(status_code, detail) ==
    [ok |-> FALSE, exc |-> "HTTPException", status_code |-> status_code, detail |-> detail]

TimeoutDetail == << "Request to Root API timed out. Please try again." >>
ConnectPrefix == "Unable to connect to Root API: "

(* f-string interpolation of a value *)
Format(v) ==
    CASE v.t = "str" -> v.s
      [] v.t = "null" -> "None"
      [] OTHER -> "<value>"

(* response.json(): the parsed body, or JSONDecodeError *)
ResponseJson(body) ==
    CASE body.k = "object" -> Ok(body)
      [] body.k = "array" -> Ok(body)
      [] OTHER -> Raise("JSONDecodeError", "Expecting value: line 1 column 1 (char 0)")

(* x.get(...) on a parsed body: only a dict has .get *)
HasGet(parsed) == parsed.k = "object"
NoGet == Raise("AttributeError", "'list' object has no attribute 'get'")

(* The body shared by the three client methods: classification of the      *)
(* outcome of the one POST they issue.                                     *)
ClientClassify(prefix, fallback, oc) ==
    CASE oc.kind = "timeout" -> HTTPException(504, TimeoutDetail)
      [] oc.kind = "connect" -> HTTPException(503, << ConnectPrefix, oc.text >>)
      [] oc.kind = "response" ->
            IF oc.status >= 400
            THEN LET error_detail == IF oc.body.k # "empty" THEN ResponseJson(oc.body)
                                     ELSE Ok([k |-> "object", obj |-> [message |-> Absent]])
                 IN  IF ~error_detail.ok THEN error_detail
                     ELSE IF ~HasGet(error_detail.val) THEN NoGet
                     ELSE HTTPException(oc.status,
                            << prefix, Format(Get(error_detail.val.obj, "message", Str(fallback))) >>)
            ELSE ResponseJson(oc.body)

RootAPIClient_create_quote(oc) ==
    ClientClassify("Root API error: ", "Failed to create quote", oc)

RootAPIClient_create_payment_method(oc) ==
    ClientClassify("Payment method creation failed: ", "Invalid payment information", oc)

RootAPIClient_bind_policy(oc) ==
    ClientClassify("Policy binding failed: ", "Unable to bind policy", oc)

(* --------------------------- endpoint handlers ------------------------- *)
QuoteFailText == "An error occurred while generating your quote. Please try again. Error: "
PaymentFailText == "An error occurred while processing your payment method. Please verify your information and try again."
BindFailText == "An error occurred while binding your policy. Please try again or contact support."

(* Mutation: the catch-all also takes the client's typed errors. *)
ReraisedNever(e) == FALSE

RECURSIVE Join(_)
Join(parts) == IF Len(parts) = 0 THEN "" ELSE Head(parts) \o Join(Tail(parts))

(* str(e) *)
StrOf(e) ==
    IF e.exc = "HTTPException" THEN ToString(e.status_code) \o ": " \o Join(e.detail)
    ELSE e.text

(* `except HTTPException: raise` of the three handlers *)
Reraised(e) == e.exc = "HTTPException"

(* `except Exception as e: raise HTTPException(500, ...)` of each handler *)
QuoteUnexpected(e) == HTTPException(500, << QuoteFailText, StrOf(e) >>)

PaymentUnexpected(e) == HTTPException(500, << PaymentFailText >>)

(* Mutation: the bind handler appends the error's text as the quote handler does. *)
BindUnexpectedWithDetail(e) == HTTPException(500, << BindFailText, StrOf(e) >>)

BindUnexpected(e) == HTTPException(500, << BindFailText >>)

(* Mutation: the generic key is looked up before the specific one. *)
PremiumGenericFirst(o) ==
    PyFloat(Get(o, "premium_amount", Get(o, "monthly_premium", Num(0))))

(* float(root_response.get("monthly_premium", root_response.get("premium_amount", 0))) *)
Premium(o) ==
    PyFloat(Get(o, "monthly_premium", Get(o, "premium_amount", Num(0))))

ResponseModelError(model) ==
    Raise("ValidationError", "1 validation error for " \o model)

(* The try block of create_quote, after the client returned `parsed`. *)
QuoteResponseFrom(parsed, today) ==
    IF ~HasGet(parsed) THEN NoGet
    ELSE LET o == parsed.obj
             quote_id == Get(o, "quote_id", Get(o, "id", Null))
             premium == Premium(o)
             coverage == Get(o, "coverage", Dict)
             valid_until == IF ~Truthy(Get(o, "valid_until", Null)) THEN NowIsoFormat(today)
                            ELSE Get(o, "valid_until", Null)
         IN  IF ~premium.ok THEN premium
             ELSE IF ~(IsStr(quote_id) /\ coverage.t = "dict" /\ IsStr(valid_until))
             THEN ResponseModelError("QuoteResponse")
             ELSE Ok([quote_id |-> quote_id,
                      premium_amount |-> premium.val,
                      coverage_details |-> coverage,
                      valid_until |-> valid_until,
                      message |-> "Quote generated successfully"])

create_quote(r, oc, today) ==
    LET root_response == RootAPIClient_create_quote(oc)
        result == IF root_response.ok THEN QuoteResponseFrom(root_response.val, today)
                  ELSE root_response
    IN  IF result.ok \/ Reraised(result) THEN result ELSE QuoteUnexpected(result)

(* card_number[-4:] *)
LastFour(d) == SubSeq(d, IF Len(d) > 4 THEN Len(d) - 3 ELSE 1, Len(d))

(* The try block of create_payment_method, after the client returned. *)
PaymentMethodResponseFrom(r, parsed) ==
    IF ~HasGet(parsed) THEN NoGet
    ELSE LET o == parsed.obj
             last_four == IF r.type = Str("card") /\ Truthy(r.cardNumber)
                          THEN Digits(LastFour(r.cardNumber.d)) ELSE Null
             payment_method_id == Get(o, "payment_method_id", Get(o, "id", Null))
         IN  IF ~IsStr(payment_method_id) THEN ResponseModelError("PaymentMethodResponse")
             ELSE Ok([payment_method_id |-> payment_method_id,
                      type |-> r.type,
                      last_four |-> last_four,
                      message |-> "Payment method created successfully"])

create_payment_method(r, oc, today) ==
    LET root_response == RootAPIClient_create_payment_method(oc)
        result == IF root_response.ok THEN PaymentMethodResponseFrom(r, root_response.val)
                  ELSE root_response
    IN  IF result.ok \/ Reraised(result) THEN result ELSE PaymentUnexpected(result)

(* date(effective.year + 1, effective.month, effective.day) *)
Expiration(effective) == MakeDate(effective.year + 1, effective.month, effective.day)

(* The try block of bind_policy, after the client returned `parsed`. *)
BindResponseFrom(parsed, today) ==
    IF ~HasGet(parsed) THEN NoGet
    ELSE LET o == parsed.obj
             effective == FromIsoFormat(Get(o, "effective_date", IsoFormat(today)))
             expiration == Expiration(effective.val)
             policy_id == Get(o, "policy_id", Get(o, "id", Null))
             policy_number == Get(o, "policy_number",
                                  [t |-> "fstr", parts |-> << "POL-", Format(Get(o, "id", Str("UNKNOWN"))) >>])
             effective_date == Get(o, "effective_date", IsoFormat(today))
             expiration_date == Get(o, "expiration_date", IsoFormat(expiration.val))
             premium == Premium(o)
             status == Get(o, "status", Str("active"))
         IN  IF ~effective.ok THEN effective
             ELSE IF ~expiration.ok THEN expiration
             ELSE IF ~premium.ok THEN premium
             ELSE IF ~(IsStr(policy_id) /\ IsStr(policy_number) /\ IsStr(effective_date)
                       /\ IsStr(expiration_date) /\ IsStr(status))
             THEN ResponseModelError("BindResponse")
             ELSE Ok([policy_id |-> policy_id,
                      policy_number |-> policy_number,
                      effective_date |-> effective_date,
                      expiration_date |-> expiration_date,
                      premium_amount |-> premium.val,
                      status |-> status,
                      message |-> "Policy bound successfully"])

bind_policy(r, oc, today) ==
    LET root_response == RootAPIClient_bind_policy(oc)
        result == IF root_response.ok THEN BindResponseFrom(root_response.val, today)
                  ELSE root_response
    IN  IF result.ok \/ Reraised(result) THEN result ELSE BindUnexpected(result)

(* Mutation: the health route reports on a provider it has not reached. *)
health_check_degraded == [status |-> 503, body |-> [status |-> "degraded", service |-> "root-insurance-backend"]]

health_check == [status |-> 200, body |-> [status |-> "healthy", service |-> "root-insurance-backend"]]

(* --------------------------- error handlers ---------------------------- *)
http_exception_handler(exc) ==
    [status |-> exc.status_code,
     body |-> [error |-> TRUE, message |-> exc.detail, status_code |-> exc.status_code]]

general_exception_handler(exc) ==
    [status |-> 500,
     body |-> [error |-> TRUE,
               message |-> << "An unexpected error occurred. Please try again later." >>,
               status_code |-> 500]]

(* What the application sends for the result of a route function. *)
Render(result) ==
    IF result.ok THEN [status |-> 200, body |-> result.val]
    ELSE IF result.exc = "HTTPException" THEN http_exception_handler(result)
    ELSE general_exception_handler(result)

Handle(r, oc, today) ==
    CASE r.op = "quote" -> create_quote(r, oc, today)
      [] r.op = "payment-method" -> create_payment_method(r, oc, today)
      [] r.op = "bind" -> bind_policy(r, oc, today)

(* ------------------------------ inputs --------------------------------- *)
Years == 2024..(2024 + YearSpan)
Months == {2, 3}
Days == {15, 29}

IsoDates == {IsoDate(y, m, d) : y \in Years, m \in Months, d \in Days}

(* date.today() *)
Todays == {[year |-> y, month |-> m, day |-> d] : y \in Years, m \in Months, d \in Days}
            \cap {dt \in [year : Years, month : Months, day : Days] : ValidDate(dt.year, dt.month, dt.day)}

CardDigits == [i \in 1..9 |-> i]
CardNumbers == {Digits(SubSeq(CardDigits, 1, n)) : n \in 0..MaxCardLen}

QuoteRequests == [op : {"quote"}, firstName : {Absent, Str("Ann")}, vin : {Absent, Str("1HGCM82633A004352")}]

PaymentMethodRequests ==
    [op : {"payment-method"},
     type : {Str("card"), Str("bank_account"), Str("cash")},
     cardNumber : {Absent} \cup CardNumbers]

BindRequests == [op : {"bind"}, quoteId : {Str("Q-1")}, paymentMethodId : {Absent, Str("PM-1")}]

Requests == QuoteRequests \cup PaymentMethodRequests \cup BindRequests

PremiumVals == {Absent, Null, Str("N/A"), Digits(<< 1, 2 >>)} \cup {Num(n) : n \in (0 - 1)..MaxPremium}

Unparsed == {[k |-> "empty"], [k |-> "text"], [k |-> "array"]}

Object(o) == [k |-> "object", obj |-> o]

ErrorBodies ==
    Unparsed \cup {Object(o) : o \in [message : {Absent, Null, Str("invalid VIN")}]}

QuoteBodies ==
    Unparsed \cup {Object(o) : o \in
        [quote_id : {Absent, Str(""), Str("Q-1")},
         id : {Absent, Str("I-1")},
         monthly_premium : PremiumVals,
         premium_amount : PremiumVals,
         coverage : {Absent, Dict},
         valid_until : {Absent, Str("2030-01-01T00:00:00")}]}

PaymentBodies ==
    Unparsed \cup {Object(o) : o \in
        [payment_method_id : {Absent, Str("PM-1")},
         id : {Absent, Str("I-1")}]}

BindBodies ==
    Unparsed \cup {Object(o) : o \in
        [policy_id : {Absent, Str("P-1")},
         id : {Absent, Str("I-1")},
         policy_number : {Absent, Str("POL-77")},
         effective_date : {Absent, Str("tomorrow")} \cup IsoDates,
         expiration_date : {Absent, IsoDate(2030, 1, 1)},
         monthly_premium : PremiumVals,
         premium_amount : PremiumVals,
         status : {Absent, Str("pending")}]}

OkStatuses == {200}
ErrorStatuses == {400, 422, 502}

SuccessBodies(op) ==
    CASE op = "quote" -> QuoteBodies
      [] op = "payment-method" -> PaymentBodies
      [] op = "bind" -> BindBodies

ProviderStates == {"up", "slow", "down"}

(* What the one outbound POST can come back with, by provider state. *)
Outcomes(op, ps) ==
    CASE ps = "slow" -> {[kind |-> "timeout"]}
      [] ps = "down" -> {[kind |-> "connect", text |-> "All connection attempts failed"]}
      [] ps = "up" ->
            {[kind |-> "response", status |-> st, body |-> b] : st \in OkStatuses, b \in SuccessBodies(op)}
            \cup {[kind |-> "response", status |-> st, body |-> b] : st \in ErrorStatuses, b \in ErrorBodies}

(* ------------------------------ actions -------------------------------- *)
Init ==
    /\ pc = "idle"
    /\ req = Nil
    /\ calls = 0
    /\ outcome = Nil
    /\ resp = Nil
    /\ providerState = "up"
    /\ healthResp = Nil

(* A POST arrives; the framework validates the body against the route's    *)
(* model and enters the route function only when there is no error.        *)
Receive ==
    /\ pc = "idle"
    /\ \E r \in Requests :
          /\ req' = r
          /\ IF RequestErrors(r) # << >>
             THEN /\ resp' = RequestValidationResponse(RequestErrors(r))
                  /\ pc' = "done"
             ELSE /\ resp' = resp
                  /\ pc' = "calling"
    /\ UNCHANGED <<calls, outcome, providerState, healthResp>>

(* The route function calls the client method, which issues client.post. *)
ClientPost ==
    /\ pc = "calling"
    /\ calls' = calls + 1
    /\ pc' = "awaiting"
    /\ UNCHANGED <<req, outcome, resp, providerState, healthResp>>

(* Mutation: a timed-out POST is issued again. *)
AfterOutcomeRetry(oc) == IF oc.kind = "timeout" THEN "calling" ELSE "done"

(* Where the request goes once the POST has come back: the except clauses  *)
(* of the client and of the handlers raise, none loops.                    *)
AfterOutcome(oc) == "done"

(* The POST comes back (or fails); the client classifies it, the route     *)
(* function maps it and the application renders the result.                *)
Complete ==
    /\ pc = "awaiting"
    /\ \E oc \in Outcomes(req.op, providerState), today \in Todays :
          /\ outcome' = oc
          /\ resp' = Render(Handle(req, oc, today))
          /\ pc' = AfterOutcome(oc)
    /\ UNCHANGED <<req, calls, providerState, healthResp>>

(* The response has been sent; nothing of the request is kept. *)
Close ==
    /\ pc = "done"
    /\ pc' = "idle"
    /\ req' = Nil
    /\ calls' = 0
    /\ outcome' = Nil
    /\ resp' = Nil
    /\ UNCHANGED <<providerState, healthResp>>

(* GET /health *)
Health ==
    /\ healthResp = Nil
    /\ healthResp' = health_check
    /\ UNCHANGED <<pc, req, calls, outcome, resp, providerState>>

HealthClose ==
    /\ healthResp # Nil
    /\ healthResp' = Nil
    /\ UNCHANGED <<pc, req, calls, outcome, resp, providerState>>

(* The provider becomes reachable, slow or unreachable. *)
ProviderChange ==
    /\ \E ps \in ProviderStates \ {providerState} : providerState' = ps
    /\ UNCHANGED <<pc, req, calls, outcome, resp, healthResp>>

Next ==
    \/ Receive
    \/ ClientPost
    \/ Complete
    \/ Close
    \/ Health
    \/ HealthClose
    \/ ProviderChange

Spec == Init /\ [][Next]_vars

TypeOK ==
    /\ pc \in {"idle", "calling", "awaiting", "done"}
    /\ calls \in 0..1
    /\ providerState \in ProviderStates

(* ------------------------------ claims --------------------------------- *)
Contains(msg, frag) == \E i \in 1..Len(msg) : msg[i] = frag

IsEnvelope(body) == DOMAIN body = {"error", "message", "status_code"}

Answered == pc = "done"

(* The POST came back and the route function ran to its end. *)
Called == pc = "done" /\ outcome # Nil

ProviderReplied == Called /\ outcome.kind = "response"

(* C1: a POST /payment-method of type "card" whose card number is empty or *)
(* absent is rejected with a 400 validation error, and no outbound call is *)
(* made for it.                                                            *)
C1_CardNumberRequired ==
    (pc # "idle" /\ req.op = "payment-method" /\ req.type = Str("card")
        /\ (req.cardNumber = Absent \/ req.cardNumber = Digits(<< >>)))
    => (/\ calls = 0
        /\ pc = "done"
        /\ resp.status = 400)

(* C2: every failed request to the three endpoints, whatever the origin of *)
(* the failure, is answered with the envelope {error: true, message,       *)
(* status_code}, where status_code is the HTTP status of the response.     *)
C2_UniformEnvelope ==
    (Answered /\ resp.status # 200)
    => (/\ IsEnvelope(resp.body)
        /\ resp.body.error = TRUE
        /\ resp.body.status_code = resp.status)

FallbackMessage(op) ==
    CASE op = "quote" -> "Failed to create quote"
      [] op = "payment-method" -> "Invalid payment information"
      [] op = "bind" -> "Unable to bind policy"

(* C3: when the provider answers with a status >= 400, the response has    *)
(* the provider's status code and a message that contains the body's       *)
(* message field when present, and the per-operation fallback when the     *)
(* body has no message field or cannot be parsed.                          *)
C3_ProviderErrorPassedThrough ==
    (ProviderReplied /\ outcome.status >= 400)
    => (/\ resp.status = outcome.status
        /\ IsEnvelope(resp.body)
        /\ (outcome.body.k = "object" /\ outcome.body.obj.message.t = "str")
              => Contains(resp.body.message, outcome.body.obj.message.s)
        /\ (outcome.body.k # "object" \/ outcome.body.obj.message = Absent)
              => Contains(resp.body.message, FallbackMessage(req.op)))

(* C4: when the outbound call times out, each of the three endpoints       *)
(* answers 504 with error: true and a message suggesting a retry; the      *)
(* handler's catch-all does not turn it into a 500.                        *)
C4_TimeoutIs504 ==
    (Called /\ outcome.kind = "timeout")
    => (/\ resp.status = 504
        /\ IsEnvelope(resp.body)
        /\ resp.body.error = TRUE
        /\ resp.body.status_code = 504
        /\ Contains(resp.body.message, "Request to Root API timed out. Please try again."))

C4_Witness ==
    /\ Called /\ outcome.kind = "timeout" /\ req.op = "bind"
    /\ resp.status = 504

(* The fields of a bind body other than the dates map to a BindResponse. *)
BindRestMaps(o) ==
    /\ (o.policy_id # Absent \/ o.id # Absent)
    /\ (IF o.monthly_premium # Absent THEN o.monthly_premium.t \in {"num", "digits"}
        ELSE o.premium_amount.t \in {"absent", "num", "digits"})

(* C5: for a successful provider response to the bind call with a valid    *)
(* effective date, POST /bind returns 200 with the provider's              *)
(* expiration_date when it is supplied, and otherwise with the effective   *)
(* date with the year increased by one and the same month and day.         *)
C5_ExpirationOneYearLater ==
    (/\ ProviderReplied /\ req.op = "bind" /\ outcome.status < 400
     /\ outcome.body.k = "object"
     /\ BindRestMaps(outcome.body.obj)
     /\ outcome.body.obj.effective_date.t = "isodate"
     /\ ValidDate(outcome.body.obj.effective_date.y, outcome.body.obj.effective_date.m,
                  outcome.body.obj.effective_date.d))
    => (/\ resp.status = 200
        /\ resp.body.expiration_date =
              IF outcome.body.obj.expiration_date # Absent THEN outcome.body.obj.expiration_date
              ELSE IsoDate(outcome.body.obj.effective_date.y + 1, outcome.body.obj.effective_date.m,
                           outcome.body.obj.effective_date.d))

(* The body is a JSON object with an identifier and a premium that float() *)
(* accepts.                                                                *)
QuoteBodyMaps(b) ==
    /\ b.k = "object"
    /\ (b.obj.quote_id # Absent \/ b.obj.id # Absent)
    /\ (IF b.obj.monthly_premium # Absent THEN b.obj.monthly_premium.t \in {"num", "digits"}
        ELSE b.obj.premium_amount.t \in {"absent", "num", "digits"})

(* C6: for a valid QuoteRequest, POST /quote returns 200 with              *)
(* premium_amount >= 0 and a non-empty quote_id, whatever body the         *)
(* provider returns with a status below 400 (stated here for the bodies    *)
(* that are JSON objects with an identifier and a numeric premium).        *)
C6_QuoteSane ==
    (ProviderReplied /\ req.op = "quote" /\ outcome.status < 400 /\ QuoteBodyMaps(outcome.body))
    => (/\ resp.status = 200
        /\ resp.body.premium_amount >= 0
        /\ resp.body.quote_id.t = "str"
        /\ resp.body.quote_id.s # "")

(* C7: at most one outbound call is issued over the whole handling of a    *)
(* request, whatever the outcome of that call.                             *)
C7_AtMostOneCall ==
    /\ calls <= 1
    /\ Called => calls = 1

C7_Witness ==
    /\ Called /\ calls = 1
    /\ outcome.kind \in {"timeout", "connect"}

(* C8: GET /health always returns 200 with status "healthy", in every      *)
(* state of the provider, and serving it issues no outbound call and       *)
(* changes nothing else.                                                   *)
C8_HealthNoSideEffect ==
    /\ [](healthResp # Nil => healthResp.status = 200 /\ healthResp.body.status = "healthy")
    /\ [][healthResp' # healthResp
             => UNCHANGED <<pc, req, calls, outcome, resp, providerState>>]_vars

C8_Witness ==
    /\ healthResp # Nil /\ healthResp.status = 200
    /\ providerState = "down"
    /\ pc = "awaiting"

(* The number a premium value stands for. *)
NumberOf(v) == IF v.t = "num" THEN v.n ELSE DigitsValue(v.d)

TypedClientError ==
    \/ outcome.kind \in {"timeout", "connect"}
    \/ /\ outcome.kind = "response" /\ outcome.status >= 400
       /\ outcome.body.k \in {"empty", "object"}

(* C10: a failure during handling that is not a provider, timeout or       *)
(* connectivity error of the client becomes a 500 whose message is the     *)
(* fixed text of the operation; the error's detail follows it for          *)
(* POST /quote only.                                                       *)
C10_UnexpectedIs500 ==
    (Called /\ resp.status # 200 /\ ~TypedClientError)
    => (/\ resp.status = 500
        /\ resp.body.status_code = 500
        /\ req.op = "quote" =>
              (Len(resp.body.message) = 2 /\ resp.body.message[1] = QuoteFailText)
        /\ req.op = "payment-method" => resp.body.message = << PaymentFailText >>
        /\ req.op = "bind" => resp.body.message = << BindFailText >>)

C10_Witness ==
    /\ Called /\ req.op = "bind" /\ resp.status = 500
    /\ outcome.kind = "response" /\ outcome.status < 400

====
